---- MODULE Spec2Model ----
(***************************************************************************)
(* A model of the bunyan log-record formatter (src/src/record.rs).         *)
(*                                                                         *)
(* Text is a sequence of one-character strings.  A character that takes    *)
(* more than one byte in UTF-8 is written as its code point ("U+00E9"),    *)
(* and an SGR escape sequence written by the `colored` crate is one        *)
(* element ("ESC[32m"): no input character is such an element, so styling  *)
(* can always be told from text.                                           *)
(***************************************************************************)
EXTENDS Integers, Sequences, FiniteSets, TLC

VARIABLES
    should_colorize,  \* colored's global switch, set by the caller's color flag
    preserve_order,   \* whether serde_json is built with its preserve_order feature
    local_offset,     \* the offset of the Local time zone from UTC, in minutes
    pc,               \* position of the run: "start", "decoded", "failed", "formatted",
                      \* or "call" / "returned" for a direct call of a pub fn
    line,             \* the raw JSON object of the input line: a sequence of members
    record,           \* the decoded LogRecord, once pc is "decoded" or "formatted"
    level_token,      \* the local `level` of LogRecord::format
    output,           \* the String returned by LogRecord::format
    level,            \* argument of a direct call of format_level
    level_ret,        \* its result
    extra_fields,     \* argument of a direct call of format_extras
    details,          \* its local `details` when it returns
    extras,           \* its local `extras` when it returns
    extras_ret        \* its result

vars == <<should_colorize, preserve_order, local_offset, pc, line, record, level_token, output,
          level, level_ret, extra_fields, details, extras, extras_ret>>

----------------------------------------------------------------------------
(* Text helpers                                                            *)

NL == "\n"
CR == "\r"
SP == " "
QUOTE == "\""
BACKSLASH == "\\"

\* Characters of the input alphabet that take more than one byte in UTF-8.
Utf8Len(c) ==
    CASE c = "U+00E9" -> 2   \* e acute
      [] c = "U+20AC" -> 3   \* euro sign
      [] OTHER -> 1

\* str::len(): the length in bytes.
RECURSIVE str_len(_)
str_len(s) == IF s = <<>> THEN 0 ELSE Utf8Len(Head(s)) + str_len(Tail(s))

\* str::contains(char)
str_contains(s, c) == \E i \in 1..Len(s) : s[i] = c

\* n copies of the character c
RECURSIVE Rep(_, _)
Rep(c, n) == IF n <= 0 THEN <<>> ELSE <<c>> \o Rep(c, n - 1)

\* Itertools::join
RECURSIVE join(_, _)
join(parts, sep) ==
    IF parts = <<>> THEN <<>>
    ELSE IF Len(parts) = 1 THEN parts[1]
    ELSE parts[1] \o sep \o join(Tail(parts), sep)

Digits == <<"0", "1", "2", "3", "4", "5", "6", "7", "8", "9">>

\* Display of an unsigned integer: its decimal digits, no padding.
RECURSIVE ToDecimal(_)
ToDecimal(n) ==
    IF n < 10 THEN <<Digits[n + 1]>>
    ELSE ToDecimal(n \div 10) \o <<Digits[(n % 10) + 1]>>

----------------------------------------------------------------------------
(* The colored crate: a ColoredString written with Display                 *)

Reset == "ESC[0m"
Esc(style) ==
    CASE style = "reversed" -> "ESC[7m"
      [] style = "red" -> "ESC[31m"
      [] style = "yellow" -> "ESC[33m"
      [] style = "green" -> "ESC[32m"
      [] style = "blue" -> "ESC[34m"
      [] style = "gray" -> "ESC[38;2;128;128;128m"
      [] style = "cyan" -> "ESC[36m"
      [] style = "bold" -> "ESC[1m"

Styles == {"reversed", "red", "yellow", "green", "blue", "gray", "cyan", "bold"}
StyleTokens == {Esc(s) : s \in Styles} \cup {Reset}

\* gray(): CustomColor::new(128, 128, 128)
gray == "gray"

\* <ColoredString as Display>::fmt: the input alone when coloring is off,
\* the style's escape, the input and a reset when it is on.
ColoredString(style, input, colorize) ==
    IF colorize THEN <<Esc(style)>> \o input \o <<Reset>> ELSE input

\* What is left of a text when its styling is removed.
Visible(s) == SelectSeq(s, LAMBDA c : c \notin StyleTokens)

----------------------------------------------------------------------------
(* Severity: NamedLogLevel and its TryFrom<u8>                             *)

NamedLogLevels == {"Fatal", "Error", "Warn", "Info", "Debug", "Trace"}

\* NamedLogLevel::try_from(u8): Ok(severity) for the six bound codes.
NamedLogLevel_try_from(n) ==
    CASE n = 60 -> [ok |-> TRUE, level |-> "Fatal"]
      [] n = 50 -> [ok |-> TRUE, level |-> "Error"]
      [] n = 40 -> [ok |-> TRUE, level |-> "Warn"]
      [] n = 30 -> [ok |-> TRUE, level |-> "Info"]
      [] n = 20 -> [ok |-> TRUE, level |-> "Debug"]
      [] n = 10 -> [ok |-> TRUE, level |-> "Trace"]
      [] OTHER -> [ok |-> FALSE, level |-> "none"]

----------------------------------------------------------------------------
(* format_level                                                            *)

format_level_mutWarnLabel(n, colorize) ==
    LET r == NamedLogLevel_try_from(n) IN
    IF r.ok THEN
        CASE r.level = "Fatal" -> ColoredString("reversed", <<"F", "A", "T", "A", "L">>, colorize)
          [] r.level = "Error" -> ColoredString("red", <<"E", "R", "R", "O", "R">>, colorize)
          [] r.level = "Warn" -> ColoredString("yellow", <<"W", "A", "R", "N">>, colorize)
          [] r.level = "Info" -> ColoredString("green", <<SP, "I", "N", "F", "O">>, colorize)
          [] r.level = "Debug" -> ColoredString("blue", <<"D", "E", "B", "U", "G">>, colorize)
          [] r.level = "Trace" -> ColoredString(gray, <<"T", "R", "A", "C", "E">>, colorize)
    ELSE <<"L", "V", "L">> \o ToDecimal(n)

format_level_mutDebugStyle(n, colorize) ==
    LET r == NamedLogLevel_try_from(n) IN
    IF r.ok THEN
        CASE r.level = "Fatal" -> ColoredString("reversed", <<"F", "A", "T", "A", "L">>, colorize)
          [] r.level = "Error" -> ColoredString("red", <<"E", "R", "R", "O", "R">>, colorize)
          [] r.level = "Warn" -> ColoredString("yellow", <<SP, "W", "A", "R", "N">>, colorize)
          [] r.level = "Info" -> ColoredString("green", <<SP, "I", "N", "F", "O">>, colorize)
          [] r.level = "Debug" -> ColoredString("green", <<"D", "E", "B", "U", "G">>, colorize)
          [] r.level = "Trace" -> ColoredString(gray, <<"T", "R", "A", "C", "E">>, colorize)
    ELSE <<"L", "V", "L">> \o ToDecimal(n)

format_level(n, colorize) ==
    LET r == NamedLogLevel_try_from(n) IN
    IF r.ok THEN
        CASE r.level = "Fatal" -> ColoredString("reversed", <<"F", "A", "T", "A", "L">>, colorize)
          [] r.level = "Error" -> ColoredString("red", <<"E", "R", "R", "O", "R">>, colorize)
          [] r.level = "Warn" -> ColoredString("yellow", <<SP, "W", "A", "R", "N">>, colorize)
          [] r.level = "Info" -> ColoredString("green", <<SP, "I", "N", "F", "O">>, colorize)
          [] r.level = "Debug" -> ColoredString("blue", <<"D", "E", "B", "U", "G">>, colorize)
          [] r.level = "Trace" -> ColoredString(gray, <<"T", "R", "A", "C", "E">>, colorize)
    ELSE <<"L", "V", "L">> \o ToDecimal(n)

----------------------------------------------------------------------------
(* serde_json::Value                                                       *)
(*                                                                         *)
(* A value is [t, s, items]: t its type; s the content of a String, or the *)
(* literal of a Number, a Bool or Null; items the members of an Array or   *)
(* an Object, each [k, v] (k is empty for the elements of an Array).       *)

Str(s) == [t |-> "String", s |-> s, items |-> <<>>]
Num(lit) == [t |-> "Number", s |-> lit, items |-> <<>>]
Bool(lit) == [t |-> "Bool", s |-> lit, items |-> <<>>]
Null == [t |-> "Null", s |-> <<"n", "u", "l", "l">>, items |-> <<>>]
Arr(vs) == [t |-> "Array", s |-> <<>>, items |-> [i \in 1..Len(vs) |-> [k |-> <<>>, v |-> vs[i]]]]
Obj(ms) == [t |-> "Object", s |-> <<>>, items |-> ms]
Member(k, v) == [k |-> k, v |-> v]

IsDigit(c) == \E i \in 1..10 : Digits[i] = c
DigitVal(c) == (CHOOSE i \in 1..10 : Digits[i] = c) - 1
AllDigits(s) == s # <<>> /\ \A i \in 1..Len(s) : IsDigit(s[i])

\* The value of a digit string small enough for a 32-bit integer.
RECURSIVE DecValue(_)
DecValue(s) ==
    IF s = <<>> THEN 0 ELSE DecValue(SubSeq(s, 1, Len(s) - 1)) * 10 + DigitVal(s[Len(s)])

\* serde_json's format_escaped_str_contents
RECURSIVE format_escaped_str_contents(_)
format_escaped_str_contents(s) ==
    IF s = <<>> THEN <<>>
    ELSE LET c == Head(s)
             e == CASE c = QUOTE -> <<BACKSLASH, QUOTE>>
                    [] c = BACKSLASH -> <<BACKSLASH, BACKSLASH>>
                    [] c = NL -> <<BACKSLASH, "n">>
                    [] c = CR -> <<BACKSLASH, "r">>
                    [] OTHER -> <<c>>
         IN e \o format_escaped_str_contents(Tail(s))

\* How serde_json writes an integer Number: sign and decimal digits.
write_number(lit) ==
    IF lit # <<>> /\ Head(lit) = "-" THEN <<"-">> \o ToDecimal(DecValue(Tail(lit)))
    ELSE ToDecimal(DecValue(lit))

\* json_to_indented_string(value, "  "): serde_json's PrettyFormatter, `depth`
\* the current nesting.
RECURSIVE pretty(_, _)
pretty(value, depth) ==
    LET ind(d) == Rep(SP, 2 * d)
        elem(m) ==
            ind(depth + 1)
            \o (IF value.t = "Object"
                THEN <<QUOTE>> \o format_escaped_str_contents(m.k) \o <<QUOTE, ":", SP>>
                ELSE <<>>)
            \o pretty(m.v, depth + 1)
        open == IF value.t = "Object" THEN "{" ELSE "["
        close == IF value.t = "Object" THEN "}" ELSE "]"
    IN CASE value.t = "String" -> <<QUOTE>> \o format_escaped_str_contents(value.s) \o <<QUOTE>>
         [] value.t = "Number" -> write_number(value.s)
         [] value.t \in {"Bool", "Null"} -> value.s
         [] value.t \in {"Array", "Object"} ->
                IF value.items = <<>> THEN <<open, close>>
                ELSE <<open, NL>>
                     \o join([i \in 1..Len(value.items) |-> elem(value.items[i])], <<",", NL>>)
                     \o <<NL>> \o ind(depth) \o <<close>>

json_to_indented_string(value) == pretty(value, 0)

----------------------------------------------------------------------------
(* indent and format_extras                                                *)

\* str::lines(): split at "\n", a "\r" before it dropped too; a last empty
\* line is not a line.
RECURSIVE split_terminated(_, _)
split_terminated(s, cur) ==
    IF s = <<>> THEN (IF cur = <<>> THEN <<>> ELSE <<cur>>)
    ELSE IF Head(s) = NL
         THEN <<(IF cur # <<>> /\ cur[Len(cur)] = CR THEN SubSeq(cur, 1, Len(cur) - 1) ELSE cur)>>
              \o split_terminated(Tail(s), <<>>)
         ELSE split_terminated(Tail(s), Append(cur, Head(s)))

lines(s) == split_terminated(s, <<>>)

Indent4 == <<SP, SP, SP, SP>>

indent_mutFirstLineOnly(s) == Indent4 \o join(lines(s), <<NL>>)

indent(s) == Indent4 \o join(lines(s), <<NL>> \o Indent4)

\* key.bold()
bold(key, colorize) == ColoredString("bold", key, colorize)

\* Lines 80-90: the stringified form of a value.
stringify(value) ==
    IF value.t = "String"
    THEN IF str_contains(value.s, SP) \/ value.s = <<>>
         THEN <<QUOTE>> \o value.s \o <<QUOTE>>
         ELSE value.s
    ELSE json_to_indented_string(value)

InlineMax == 50

\* Line 92: whether a stringified value goes to the details.
is_detail(stringified) ==
    str_contains(stringified, NL) \/ str_len(stringified) > InlineMax

\* Lines 93-99: what one pair pushes, to `details` or to `extras`.
detail_block_mutStringified(key, value, colorize) ==
    indent(bold(key, colorize) \o <<":", SP>> \o stringify(value))

detail_block(key, value, colorize) ==
    IF value.t = "String"
    THEN indent(bold(key, colorize) \o <<":", SP>> \o value.s)
    ELSE indent(bold(key, colorize) \o <<":", SP>> \o stringify(value))

inline_pair(key, value, colorize) ==
    bold(key, colorize) \o <<"=">> \o stringify(value)

\* Lines 77-101: the loop over the map, in its iteration order; the result
\* is the two vectors.
RECURSIVE extras_loop(_, _, _, _)
extras_loop(fields, ds, es, colorize) ==
    IF fields = <<>> THEN [details |-> ds, extras |-> es]
    ELSE LET key == Head(fields).k
             value == Head(fields).v
         IN IF is_detail(stringify(value))
            THEN extras_loop(Tail(fields),
                             Append(ds, detail_block(key, value, colorize)),
                             es, colorize)
            ELSE extras_loop(Tail(fields), ds,
                             Append(es, inline_pair(key, value, colorize)),
                             colorize)

\* Lines 102-112: the two groups and the returned text.
DetailSep == <<NL>> \o Indent4 \o <<"-", "-", NL>>

formatted_details(ds) ==
    IF ds # <<>> THEN join(ds, DetailSep) \o <<NL>> ELSE <<>>

formatted_extras_mutNoSpace(es) ==
    IF es # <<>> THEN <<"(">> \o join(es, <<",">>) \o <<")">> ELSE <<>>

formatted_extras(es) ==
    IF es # <<>> THEN <<SP, "(">> \o join(es, <<",">>) \o <<")">> ELSE <<>>

format_extras(fields, colorize) ==
    LET v == extras_loop(fields, <<>>, <<>>, colorize)
    IN formatted_extras(v.extras) \o <<NL>> \o formatted_details(v.details)

----------------------------------------------------------------------------
(* chrono: instants, RFC 3339 text, epoch milliseconds                     *)
(*                                                                         *)
(* A DateTime<Utc> is [days, ms]: the days since 1970-01-01 and the        *)
(* millisecond of the day.  (chrono keeps nanoseconds; everything the      *)
(* formatter prints is at millisecond precision.)                          *)

MsPerDay == 86400000

IsLeap(y) == (y % 4 = 0 /\ y % 100 # 0) \/ y % 400 = 0

DaysInMonth(y, m) ==
    IF m = 2 THEN (IF IsLeap(y) THEN 29 ELSE 28)
    ELSE IF m \in {4, 6, 9, 11} THEN 30 ELSE 31

\* Days since 1970-01-01 of a date of the proleptic Gregorian calendar.
days_from_civil(y, m, d) ==
    LET yy == IF m <= 2 THEN y - 1 ELSE y
        era == yy \div 400
        yoe == yy - era * 400
        mp == (m + 9) % 12
        doy == (153 * mp + 2) \div 5 + d - 1
        doe == yoe * 365 + yoe \div 4 - yoe \div 100 + doy
    IN era * 146097 + doe - 719468

\* The date of a day number: the inverse of days_from_civil.
civil_from_days(days) ==
    LET z == days + 719468
        era == z \div 146097
        doe == z - era * 146097
        yoe == (doe - doe \div 1460 + doe \div 36524 - doe \div 146096) \div 365
        doy == doe - (365 * yoe + yoe \div 4 - yoe \div 100)
        mp == (5 * doy + 2) \div 153
        d == doy - (153 * mp + 2) \div 5 + 1
        m == IF mp < 10 THEN mp + 3 ELSE mp - 9
        y == yoe + era * 400 + (IF m <= 2 THEN 1 ELSE 0)
    IN [y |-> y, m |-> m, d |-> d]

\* The instant `minutes` later.
add_minutes(t, minutes) ==
    LET total == t.ms + minutes * 60000
    IN [days |-> t.days + total \div MsPerDay, ms |-> total % MsPerDay]

\* A number in at least `width` decimal digits, zero-padded.
Pad(n, width) == LET d == ToDecimal(n) IN Rep("0", width - Len(d)) \o d

\* DateTime::to_rfc3339_opts(SecondsFormat::Millis, use_z) of the instant
\* shown at a fixed offset of `offset` minutes.
to_rfc3339_opts(t, offset, use_z) ==
    LET local == add_minutes(t, offset)
        date == civil_from_days(local.days)
        secs == local.ms \div 1000
        abs == IF offset < 0 THEN -offset ELSE offset
    IN Pad(date.y, 4) \o <<"-">> \o Pad(date.m, 2) \o <<"-">> \o Pad(date.d, 2)
       \o <<"T">> \o Pad(secs \div 3600, 2) \o <<":">> \o Pad((secs \div 60) % 60, 2)
       \o <<":">> \o Pad(secs % 60, 2) \o <<".">> \o Pad(local.ms % 1000, 3)
       \o (IF offset = 0 /\ use_z THEN <<"Z">>
           ELSE <<(IF offset < 0 THEN "-" ELSE "+")>> \o Pad(abs \div 60, 2)
                \o <<":">> \o Pad(abs % 60, 2))

NoInstant == [ok |-> FALSE, days |-> 0, ms |-> 0]

\* The parse of an RFC 3339 date-time: YYYY-MM-DDTHH:MM:SS, an optional
\* fraction, then Z or a numeric offset; the instant is converted to UTC.
parse_rfc3339(s) ==
    LET n == Len(s)
        dig(i, j) == j <= n /\ AllDigits(SubSeq(s, i, j))
        num(i, j) == DecValue(SubSeq(s, i, j))
        head_ok ==
            /\ n >= 20
            /\ dig(1, 4) /\ s[5] = "-" /\ dig(6, 7) /\ s[8] = "-" /\ dig(9, 10)
            /\ s[11] = "T"
            /\ dig(12, 13) /\ s[14] = ":" /\ dig(15, 16) /\ s[17] = ":" /\ dig(18, 19)
        has_frac == n >= 21 /\ s[20] = "."
        \* the first position after the fraction's digits
        frac_end ==
            IF has_frac
            THEN CHOOSE p \in 21..(n + 1) :
                    /\ \A i \in 21..(p - 1) : IsDigit(s[i])
                    /\ (p = n + 1 \/ ~IsDigit(s[p]))
            ELSE 20
        frac == IF has_frac THEN SubSeq(s, 21, frac_end - 1) ELSE <<>>
        millis == DecValue(SubSeq(frac \o <<"0", "0", "0">>, 1, 3))
        tz == frac_end
        zulu == tz = n /\ s[tz] = "Z"
        numeric ==
            /\ tz + 5 = n
            /\ s[tz] \in {"+", "-"}
            /\ dig(tz + 1, tz + 2) /\ s[tz + 3] = ":" /\ dig(tz + 4, tz + 5)
            /\ num(tz + 1, tz + 2) <= 23 /\ num(tz + 4, tz + 5) <= 59
        offset ==
            IF zulu THEN 0
            ELSE (IF s[tz] = "-" THEN -1 ELSE 1)
                 * (num(tz + 1, tz + 2) * 60 + num(tz + 4, tz + 5))
        y == num(1, 4)
        mo == num(6, 7)
        d == num(9, 10)
        fields_ok ==
            /\ mo \in 1..12 /\ d \in 1..DaysInMonth(y, mo)
            /\ num(12, 13) <= 23 /\ num(15, 16) <= 59 /\ num(18, 19) <= 59
    IN IF /\ head_ok
          /\ (has_frac => frac # <<>>)
          /\ tz <= n
          /\ (zulu \/ numeric)
          /\ fields_ok
       THEN LET local == [days |-> days_from_civil(y, mo, d),
                          ms |-> ((num(12, 13) * 60 + num(15, 16)) * 60 + num(18, 19)) * 1000
                                 + millis]
                utc == add_minutes(local, -offset)
            IN [ok |-> TRUE, days |-> utc.days, ms |-> utc.ms]
       ELSE NoInstant

\* An integer literal of JSON: an optional minus sign and digits.
IsIntegerLiteral(lit) ==
    IF lit # <<>> /\ Head(lit) = "-" THEN AllDigits(Tail(lit)) ELSE AllDigits(lit)

\* a <= b for two digit strings without leading zeros.
RECURSIVE DecLeq(_, _)
DecLeq(a, b) ==
    IF Len(a) # Len(b) THEN Len(a) < Len(b)
    ELSE IF a = <<>> THEN TRUE
    ELSE IF Head(a) # Head(b) THEN DigitVal(Head(a)) < DigitVal(Head(b))
    ELSE DecLeq(Tail(a), Tail(b))

I64MaxDigits ==
    <<"9", "2", "2", "3", "3", "7", "2", "0", "3", "6", "8", "5", "4", "7", "7", "5", "8", "0", "7">>
I64MinDigits ==
    <<"9", "2", "2", "3", "3", "7", "2", "0", "3", "6", "8", "5", "4", "7", "7", "5", "8", "0", "8">>
U32MaxDigits == <<"4", "2", "9", "4", "9", "6", "7", "2", "9", "5">>

\* Whether an integer literal is an i64.
fits_i64(lit) ==
    IF Head(lit) = "-" THEN DecLeq(Tail(lit), I64MinDigits) ELSE DecLeq(lit, I64MaxDigits)

\* Division of a digit string by the milliseconds of a day, digit by digit;
\* a quotient past every representable day number is only marked as such.
RECURSIVE div_ms_per_day(_, _, _, _)
div_ms_per_day(digits, q, r, big) ==
    IF digits = <<>> THEN [q |-> q, r |-> r, big |-> big]
    ELSE LET cur == r * 10 + DigitVal(Head(digits))
             q2 == q * 10 + cur \div MsPerDay
         IN IF big \/ q2 > 100000000
            THEN div_ms_per_day(Tail(digits), 0, cur % MsPerDay, TRUE)
            ELSE div_ms_per_day(Tail(digits), q2, cur % MsPerDay, FALSE)

\* Utc.timestamp_millis_opt(i): Single(instant) inside chrono's range of
\* dates (the years -262144 to 262143), None outside.
timestamp_millis_opt_mutSeconds(lit) ==
    LET neg == Head(lit) = "-"
        dm == div_ms_per_day((IF neg THEN Tail(lit) ELSE lit) \o <<"0", "0", "0">>, 0, 0, FALSE)
        days == IF neg THEN -dm.q - (IF dm.r > 0 THEN 1 ELSE 0) ELSE dm.q
        ms == IF neg /\ dm.r > 0 THEN MsPerDay - dm.r ELSE dm.r
    IN IF ~dm.big /\ days >= days_from_civil(-262144, 1, 1)
                  /\ days <= days_from_civil(262143, 12, 31)
       THEN [ok |-> TRUE, days |-> days, ms |-> ms]
       ELSE NoInstant

timestamp_millis_opt(lit) ==
    LET neg == Head(lit) = "-"
        dm == div_ms_per_day(IF neg THEN Tail(lit) ELSE lit, 0, 0, FALSE)
        days == IF neg THEN -dm.q - (IF dm.r > 0 THEN 1 ELSE 0) ELSE dm.q
        ms == IF neg /\ dm.r > 0 THEN MsPerDay - dm.r ELSE dm.r
    IN IF ~dm.big /\ days >= days_from_civil(-262144, 1, 1)
                  /\ days <= days_from_civil(262143, 12, 31)
       THEN [ok |-> TRUE, days |-> days, ms |-> ms]
       ELSE NoInstant

\* iso8601_or_timestamp::deserialize: the untagged DateTimeOrTimestamp, a
\* string that parses as a date-time or an i64, then the match on it.  The
\* DateTime arm parses the instant's own RFC 3339 text again.
iso8601_or_timestamp_deserialize(value) ==
    IF value.t = "String" /\ parse_rfc3339(value.s).ok
    THEN parse_rfc3339(to_rfc3339_opts(parse_rfc3339(value.s), 0, FALSE))
    ELSE IF value.t = "Number" /\ IsIntegerLiteral(value.s) /\ fits_i64(value.s)
    THEN timestamp_millis_opt(value.s)
    ELSE NoInstant

----------------------------------------------------------------------------
(* LogRecord: the derived Deserialize, and format                          *)

None == [some |-> FALSE, val |-> <<>>]
NoneInt == [some |-> FALSE, val |-> 0]
Some(x) == [some |-> TRUE, val |-> x]

HasField(obj, k) == \E i \in 1..Len(obj) : obj[i].k = k
GetField(obj, k) == obj[CHOOSE i \in 1..Len(obj) : obj[i].k = k].v

\* The keys of the fixed fields: `v`, and `message` renamed to "msg".
Key_v == <<"v">>
Key_level == <<"l", "e", "v", "e", "l">>
Key_name == <<"n", "a", "m", "e">>
Key_hostname == <<"h", "o", "s", "t", "n", "a", "m", "e">>
Key_pid == <<"p", "i", "d">>
Key_time == <<"t", "i", "m", "e">>
Key_msg == <<"m", "s", "g">>

FieldKeys_mutVersion ==
    {<<"v", "e", "r", "s", "i", "o", "n">>, Key_level, Key_name, Key_hostname, Key_pid,
     Key_time, Key_msg}

FieldKeys == {Key_v, Key_level, Key_name, Key_hostname, Key_pid, Key_time, Key_msg}

\* An unsigned integer field: a non-negative integer literal up to `max`.
parse_unsigned(value, max) ==
    IF value.t = "Number" /\ AllDigits(value.s) /\ DecLeq(value.s, max)
    THEN [ok |-> TRUE, val |-> DecValue(value.s)]
    ELSE [ok |-> FALSE, val |-> 0]

\* Option<u8>, Option<u32>: a missing or null field is None.
parse_option_unsigned(obj, k, max) ==
    IF ~HasField(obj, k) \/ GetField(obj, k).t = "Null" THEN [ok |-> TRUE, val |-> NoneInt]
    ELSE LET r == parse_unsigned(GetField(obj, k), max)
         IN [ok |-> r.ok, val |-> [some |-> TRUE, val |-> r.val]]

\* A string of the line that is written with an escape cannot be borrowed.
NeedsEscape(s) == \E i \in 1..Len(s) : s[i] \in {QUOTE, BACKSLASH, NL, CR}

\* Option<&'a str>: a missing or null field is None; the string is borrowed
\* from the line.
parse_option_str(obj, k) ==
    IF ~HasField(obj, k) \/ GetField(obj, k).t = "Null" THEN [ok |-> TRUE, val |-> None]
    ELSE LET value == GetField(obj, k)
         IN [ok |-> value.t = "String" /\ ~NeedsEscape(value.s), val |-> Some(value.s)]

\* The order of two keys in a BTreeMap: by bytes (the keys of the model are
\* lower-case letters and digits).
CodeTable ==
    <<"0", "1", "2", "3", "4", "5", "6", "7", "8", "9",
      "a", "b", "c", "d", "e", "f", "g", "h", "i", "j", "k", "l", "m",
      "n", "o", "p", "q", "r", "s", "t", "u", "v", "w", "x", "y", "z">>
Code(c) == CHOOSE i \in 1..Len(CodeTable) : CodeTable[i] = c

RECURSIVE key_less(_, _)
key_less(a, b) ==
    IF b = <<>> THEN FALSE
    ELSE IF a = <<>> THEN TRUE
    ELSE IF Head(a) # Head(b) THEN Code(Head(a)) < Code(Head(b))
    ELSE key_less(Tail(a), Tail(b))

\* Map::insert of a key the map does not hold: at the end with
\* preserve_order, at the key's place in the order of the keys without.
RECURSIVE map_insert(_, _, _)
map_insert(map, m, keep_order) ==
    IF map = <<>> THEN <<m>>
    ELSE IF ~keep_order /\ key_less(m.k, Head(map).k) THEN <<m>> \o map
    ELSE <<Head(map)>> \o map_insert(Tail(map), m, keep_order)

\* #[serde(flatten)] extras: every member whose key is not a fixed field's,
\* inserted in the order of the line.
RECURSIVE collect_extras(_, _, _)
collect_extras(obj, map, keep_order) ==
    IF obj = <<>> THEN map
    ELSE IF Head(obj).k \in FieldKeys THEN collect_extras(Tail(obj), map, keep_order)
    ELSE collect_extras(Tail(obj), map_insert(map, Head(obj), keep_order), keep_order)

U8MaxDigits == <<"2", "5", "5">>

\* The Deserialize derived for LogRecord, on a JSON object with unique keys:
\* Ok(record), or an error when a field is missing or has the wrong shape.
LogRecord_deserialize(obj, keep_order) ==
    LET v == parse_option_unsigned(obj, Key_v, U8MaxDigits)
        lvl == IF HasField(obj, Key_level)
               THEN parse_unsigned(GetField(obj, Key_level), U8MaxDigits)
               ELSE [ok |-> FALSE, val |-> 0]
        name == parse_option_str(obj, Key_name)
        hostname == parse_option_str(obj, Key_hostname)
        pid == parse_option_unsigned(obj, Key_pid, U32MaxDigits)
        time == IF HasField(obj, Key_time)
                THEN iso8601_or_timestamp_deserialize(GetField(obj, Key_time))
                ELSE NoInstant
        msg_ok == HasField(obj, Key_msg) /\ GetField(obj, Key_msg).t = "String"
    IN IF v.ok /\ lvl.ok /\ name.ok /\ hostname.ok /\ pid.ok /\ time.ok /\ msg_ok
       THEN [ok |-> TRUE,
             rec |-> [v |-> v.val, level |-> lvl.val, name |-> name.val,
                      hostname |-> hostname.val, pid |-> pid.val,
                      time |-> [days |-> time.days, ms |-> time.ms],
                      message |-> GetField(obj, Key_msg).s,
                      extras |-> collect_extras(obj, <<>>, keep_order)]]
       ELSE [ok |-> FALSE, rec |-> <<>>]

\* Option::unwrap_or
unwrap_or(opt, default) == IF opt.some THEN opt.val ELSE default

\* LogRecord::format: "[{}] {} ({}): {}{}" of the local time, the level, the
\* pid or 0, the message in cyan and the extras.  `_format` is not used.
LogRecord_format_mutCyanAlways(rec, colorize, offset) ==
    <<"[">> \o to_rfc3339_opts(rec.time, offset, TRUE) \o <<"]", SP>>
    \o format_level(rec.level, colorize)
    \o <<SP, "(">> \o ToDecimal(unwrap_or(rec.pid, 0)) \o <<")", ":", SP>>
    \o <<Esc("cyan")>> \o rec.message \o <<Reset>>
    \o format_extras(rec.extras, colorize)

LogRecord_format(rec, colorize, offset) ==
    <<"[">> \o to_rfc3339_opts(rec.time, offset, TRUE) \o <<"]", SP>>
    \o format_level(rec.level, colorize)
    \o <<SP, "(">> \o ToDecimal(unwrap_or(rec.pid, 0)) \o <<")", ":", SP>>
    \o ColoredString("cyan", rec.message, colorize)
    \o format_extras(rec.extras, colorize)

----------------------------------------------------------------------------
(* Inputs                                                                  *)

\* The largest number of fields of an extras map.
MaxExtras == 2

\* The i-th key of a map, in the map's iteration order.
Key(i) == <<"k">> \o ToDecimal(i)

Fill(n) == Rep("a", n)

\* Strings at the ends of the range and on both sides of the inline limit:
\* of one-byte characters, with a space (quoted, so two characters longer
\* when stringified), with a two-byte character, and of several lines.
ExtraStrings ==
    {Str(Fill(n)) : n \in {0, 1, InlineMax, InlineMax + 1}}
    \cup {Str(Fill(n - 1) \o <<SP>>) : n \in {1, InlineMax - 2, InlineMax - 1}}
    \cup {Str(Fill(n - 1) \o <<"U+00E9">>) : n \in {InlineMax - 1, InlineMax}}
    \cup {Str(<<"a", NL, "b">>), Str(<<"a", NL>>), Str(<<"a", CR, NL, "b">>),
          Str(<<"a", SP, "b", NL, NL, "c">>)}

ExtraOthers ==
    {Num(<<"5">>), Num(<<"-", "1", "2">>), Null, Arr(<<>>),
     Obj(<<Member(<<"x">>, Arr(<<Bool(<<"f", "a", "l", "s", "e">>), Str(<<"a", SP, "b">>)>>)),
           Member(<<"q", QUOTE>>, Str(<<"l", NL>>))>>)}

ExtraValues == ExtraStrings \cup ExtraOthers

\* The maps of at most MaxExtras fields, each a sequence of members in the
\* map's iteration order.
ExtraMaps ==
    UNION {{[i \in 1..n |-> Member(Key(i), f[i])] : f \in [1..n -> ExtraValues]}
           : n \in 0..MaxExtras}

\* The values a line gives each fixed field: those the field accepts, and
\* those that make decoding fail.  Absent stands for a key the line lacks.
Absent == [t |-> "Absent", s |-> <<>>, items |-> <<>>]

LevelsOk == {Num(ToDecimal(n)) : n \in {10, 20, 30, 40, 50, 60, 35, 255}}
LevelsBad == {Num(ToDecimal(256)), Str(<<"i", "n", "f", "o">>), Absent}

NamesOk == {Absent, Str(<<"m", "y", "s", "e", "r", "v", "i", "c", "e">>)}
NamesBad == {Str(<<"m", "y", QUOTE, "s", "v", "c">>)}

HostnamesOk == {Absent, Str(<<"e", "x", "a", "m", "p", "l", "e", ".", "c", "o", "m">>)}

PidsOk == {Absent, Num(ToDecimal(123))}
PidsBad == {Num(<<"4", "2", "9", "4", "9", "6", "7", "2", "9", "6">>)}

Time_iso == Str(<<"2", "0", "1", "2", "-", "0", "2", "-", "0", "8", "T", "2", "2", ":", "5", "6", ":", "5", "2", ".", "8", "5", "6", "Z">>)
Time_iso_offset == Str(<<"2", "0", "1", "2", "-", "0", "2", "-", "0", "9", "T", "0", "0", ":", "5", "6", ":", "5", "2", "+", "0", "2", ":", "0", "0">>)
Time_millis == Num(<<"1", "3", "2", "8", "7", "4", "1", "8", "1", "2", "8", "5", "6">>)
Time_before_epoch == Num(<<"-", "1">>)

TimesOk == {Time_iso, Time_iso_offset, Time_millis, Time_before_epoch}
TimesBad ==
    {Absent, Null, Bool(<<"t", "r", "u", "e">>), Obj(<<>>), Arr(<<Time_millis>>),
     Num(<<"1", "3", "2", "8", "7", "4", "1", "8", "1", "2", "8", "5", "6", ".", "5">>),
     Str(<<"y", "e", "s", "t", "e", "r", "d", "a", "y">>),
     Str(<<"2", "0", "1", "2", "-", "0", "2", "-", "3", "0", "T", "2", "2", ":", "5", "6", ":", "5", "2", ".", "8", "5", "6", "Z">>),
     Str(<<"2", "0", "1", "2", "-", "0", "2", "-", "0", "8">>),
     Num(I64MaxDigits), Num(<<"-">> \o I64MaxDigits), Num(I64MinDigits)}

MsgsOk == {Str(<<"M", "y", SP, "m", "e", "s", "s", "a", "g", "e">>), Str(<<>>)}
MsgsBad == {Absent, Num(<<"1">>)}

\* The other members of a line: none; the corpus line's "v"; a "version"
\* key and a counter; two extras out of key order, one of them long.
OtherMembers ==
    {<<>>,
     <<Member(Key_v, Num(<<"0">>))>>,
     <<Member(<<"v", "e", "r", "s", "i", "o", "n">>, Num(<<"1">>)),
       Member(<<"c", "o", "u", "n", "t">>, Num(<<"5">>))>>,
     <<Member(<<"z", "e", "t", "a">>, Str(Fill(InlineMax - 1) \o <<SP>>)),
       Member(Key_v, Num(<<"0">>)),
       Member(<<"a", "l", "p", "h", "a">>, Str(<<"x", SP, "y">>))>>}

\* The line with the given values of the fixed fields, then the other members.
MkLine(lv, nm, hn, pd, tm, mg, others) ==
    SelectSeq(<<Member(Key_level, lv), Member(Key_name, nm), Member(Key_hostname, hn),
                Member(Key_pid, pd), Member(Key_time, tm), Member(Key_msg, mg)>>,
              LAMBDA m : m.v # Absent)
    \o others

GoodLines ==
    {MkLine(lv, nm, hn, pd, tm, mg, o) :
        lv \in LevelsOk, nm \in NamesOk, hn \in HostnamesOk, pd \in PidsOk,
        tm \in TimesOk, mg \in MsgsOk, o \in OtherMembers}

\* The lines with one field that does not decode: the corpus line's fields
\* with that one replaced.
BaseLevel == Num(ToDecimal(30))
BaseName == Str(<<"m", "y", "s", "e", "r", "v", "i", "c", "e">>)
BaseHostname == Str(<<"e", "x", "a", "m", "p", "l", "e", ".", "c", "o", "m">>)
BasePid == Num(ToDecimal(123))
BaseMsg == Str(<<"M", "y", SP, "m", "e", "s", "s", "a", "g", "e">>)

BadLines ==
    UNION {
        {MkLine(lv, BaseName, BaseHostname, BasePid, Time_iso, BaseMsg, o) : lv \in LevelsBad}
        \cup {MkLine(BaseLevel, nm, BaseHostname, BasePid, Time_iso, BaseMsg, o) : nm \in NamesBad}
        \cup {MkLine(BaseLevel, BaseName, BaseHostname, pd, Time_iso, BaseMsg, o) : pd \in PidsBad}
        \cup {MkLine(BaseLevel, BaseName, BaseHostname, BasePid, tm, BaseMsg, o) : tm \in TimesBad}
        \cup {MkLine(BaseLevel, BaseName, BaseHostname, BasePid, Time_iso, mg, o) : mg \in MsgsBad}
        : o \in OtherMembers}

Lines == GoodLines \cup BadLines

\* The offsets of the Local time zone: UTC, and two hours east of it.
LocalOffsets == {0, 120}

U8Max == 255

NoText == <<"(none)">>

----------------------------------------------------------------------------
(* Direct calls of the pub functions                                       *)

IdlePipeline ==
    /\ line = <<>>
    /\ record = <<>>
    /\ level_token = NoText
    /\ output = NoText
    /\ preserve_order = FALSE
    /\ local_offset = 0

IdleLevel == level = 0 /\ level_ret = NoText

IdleExtras ==
    /\ extra_fields = <<>>
    /\ details = <<>>
    /\ extras = <<>>
    /\ extras_ret = NoText

InitLevel ==
    /\ pc = "call"
    /\ should_colorize \in BOOLEAN
    /\ level \in 0..U8Max
    /\ level_ret = NoText
    /\ IdlePipeline
    /\ IdleExtras

CallFormatLevel ==
    /\ pc = "call"
    /\ level_ret = NoText
    /\ level_ret' = format_level(level, should_colorize)
    /\ pc' = "returned"
    /\ UNCHANGED <<should_colorize, preserve_order, local_offset, line, record, level_token, output,
                   level, extra_fields, details, extras, extras_ret>>

NextLevel == CallFormatLevel

SpecLevel == InitLevel /\ [][NextLevel]_vars

InitExtras ==
    /\ pc = "call"
    /\ should_colorize \in BOOLEAN
    /\ extra_fields \in ExtraMaps
    /\ details = <<>>
    /\ extras = <<>>
    /\ extras_ret = NoText
    /\ IdlePipeline
    /\ IdleLevel

CallFormatExtras ==
    /\ pc = "call"
    /\ extras_ret = NoText
    /\ LET v == extras_loop(extra_fields, <<>>, <<>>, should_colorize)
       IN /\ details' = v.details
          /\ extras' = v.extras
    /\ extras_ret' = format_extras(extra_fields, should_colorize)
    /\ pc' = "returned"
    /\ UNCHANGED <<should_colorize, preserve_order, local_offset, line, record, level_token, output,
                   level, level_ret, extra_fields>>

NextExtras == CallFormatExtras

SpecExtras == InitExtras /\ [][NextExtras]_vars

----------------------------------------------------------------------------
(* One line through the pipeline: decode, then format                      *)

Init ==
    /\ pc = "start"
    /\ should_colorize \in BOOLEAN
    /\ preserve_order \in BOOLEAN
    /\ local_offset \in LocalOffsets
    /\ line \in Lines
    /\ record = <<>>
    /\ level_token = NoText
    /\ output = NoText
    /\ IdleLevel
    /\ IdleExtras

\* serde_json::from_str::<LogRecord>(line)
Decode ==
    /\ pc = "start"
    /\ LET r == LogRecord_deserialize(line, preserve_order)
       IN /\ pc' = IF r.ok THEN "decoded" ELSE "failed"
          /\ record' = r.rec
    /\ UNCHANGED <<should_colorize, preserve_order, local_offset, line, level_token, output,
                   level, level_ret, extra_fields, details, extras, extras_ret>>

\* record.format(format)
Format ==
    /\ pc = "decoded"
    /\ level_token' = format_level(record.level, should_colorize)
    /\ output' = LogRecord_format(record, should_colorize, local_offset)
    /\ pc' = "formatted"
    /\ UNCHANGED <<should_colorize, preserve_order, local_offset, line, record,
                   level, level_ret, extra_fields, details, extras, extras_ret>>

Next == Decode \/ Format

Spec == Init /\ [][Next]_vars

----------------------------------------------------------------------------
(* Claims about format_level                                               *)

SeverityLabel(sev) ==
    CASE sev = "Fatal" -> <<"F", "A", "T", "A", "L">>
      [] sev = "Error" -> <<"E", "R", "R", "O", "R">>
      [] sev = "Warn" -> <<SP, "W", "A", "R", "N">>
      [] sev = "Info" -> <<SP, "I", "N", "F", "O">>
      [] sev = "Debug" -> <<"D", "E", "B", "U", "G">>
      [] sev = "Trace" -> <<"T", "R", "A", "C", "E">>

HasPrefix(s, p) == Len(s) >= Len(p) /\ SubSeq(s, 1, Len(p)) = p
DropPrefix(s, n) == SubSeq(s, n + 1, Len(s))

\* d is the decimal numeral of n: digits only, no leading zero, of value n.
IsDecimalOf(d, n) ==
    /\ AllDigits(d)
    /\ (Len(d) = 1 \/ d[1] # "0")
    /\ DecValue(d) = n

\* C5: for every level code n in 0..255, format_level(n) returns; its visible
\* content is the 5-character label of the severity bound to n when n is a
\* known code, and "LVL" followed by the decimal numeral of n otherwise.
C5_LevelLabel ==
    /\ pc = "call" => ENABLED CallFormatLevel
    /\ pc = "returned" =>
          LET r == NamedLogLevel_try_from(level)
              shown == Visible(level_ret)
          IN IF r.ok
             THEN shown = SeverityLabel(r.level) /\ Len(shown) = 5
             ELSE /\ HasPrefix(shown, <<"L", "V", "L">>)
                  /\ IsDecimalOf(DropPrefix(shown, 3), level)

C5_Witness ==
    /\ pc = "returned"
    /\ level = 40
    /\ should_colorize
    /\ Visible(level_ret) = <<SP, "W", "A", "R", "N">>
    /\ level_ret # Visible(level_ret)

----------------------------------------------------------------------------
(* Claims about format_extras                                              *)

RECURSIVE Concat(_)
Concat(ts) == IF ts = <<>> THEN <<>> ELSE Head(ts) \o Concat(Tail(ts))

KeyText(m) == bold(m.k, should_colorize)

\* The field is rendered in the detail group: a block starts with its key.
InDetailGroup(m) ==
    \E j \in 1..Len(details) : HasPrefix(details[j], Indent4 \o KeyText(m) \o <<":", SP>>)

\* The field is rendered in the inline group: a pair starts with its key.
InInlineGroup(m) ==
    \E j \in 1..Len(extras) : HasPrefix(extras[j], KeyText(m) \o <<"=">>)

\* The stringified value has a newline or is longer than 50 characters.
LongOrMultiline(m) ==
    LET st == stringify(m.v) IN str_contains(st, NL) \/ Len(st) > InlineMax

\* C3: every pair is rendered in the detail group if its stringified value
\* contains a newline or is longer than 50 characters, and in the inline
\* group otherwise, never in both and never in neither.
C3_ClassifiedByCharacters ==
    pc = "returned" =>
        /\ Len(details) + Len(extras) = Len(extra_fields)
        /\ \A i \in 1..Len(extra_fields) :
              LET m == extra_fields[i]
              IN /\ InDetailGroup(m) <=> LongOrMultiline(m)
                 /\ InInlineGroup(m) <=> ~LongOrMultiline(m)

\* What the code does where C3 fails: the limit is on the bytes of the
\* stringified value, so a value with multi-byte characters becomes a detail
\* at fewer than 51 characters.
C3_ClassifiedByBytes ==
    pc = "returned" =>
        /\ Len(details) + Len(extras) = Len(extra_fields)
        /\ \A i \in 1..Len(extra_fields) :
              LET m == extra_fields[i]
                  st == stringify(m.v)
                  long == str_contains(st, NL) \/ str_len(st) > InlineMax
              IN /\ InDetailGroup(m) <=> long
                 /\ InInlineGroup(m) <=> ~long

IsQuotable(s) == s = <<>> \/ str_contains(s, SP)
Quoted(s) == <<QUOTE>> \o s \o <<QUOTE>>

\* Each line of the text, as str::lines gives them, after 4 spaces.
IndentedLines(text) ==
    LET ls == lines(text)
    IN Concat([i \in 1..Len(ls) |-> (IF i > 1 THEN <<NL>> ELSE <<>>) \o Indent4 \o ls[i]])

\* The field is rendered, in the inline or in the detail group, with the
\* value text `shown`.
RenderedAs(m, shown) ==
    \/ \E j \in 1..Len(extras) : extras[j] = KeyText(m) \o <<"=">> \o shown
    \/ \E j \in 1..Len(details) :
          details[j] = IndentedLines(KeyText(m) \o <<":", SP>> \o shown)

\* C4 as claimed: a string-valued field is rendered in double quotes when the
\* string is empty or contains a space, and as its raw content otherwise,
\* whichever group it is rendered in.
C4_QuotedInEitherGroup ==
    pc = "returned" =>
        \A i \in 1..Len(extra_fields) :
            LET m == extra_fields[i]
            IN m.v.t = "String" =>
                   RenderedAs(m, IF IsQuotable(m.v.s) THEN Quoted(m.v.s) ELSE m.v.s)

\* C4, amended: in the inline group a string-valued field is rendered in
\* double quotes when the string is empty or contains a space and as its raw
\* content otherwise; in the detail group it is rendered as its raw content,
\* with or without a space.
C4_QuotedInlineRawDetail ==
    pc = "returned" =>
        \A i \in 1..Len(extra_fields) :
            LET m == extra_fields[i]
            IN m.v.t = "String" =>
                   /\ InInlineGroup(m) =>
                         \E j \in 1..Len(extras) :
                             extras[j] = KeyText(m) \o <<"=">>
                                         \o (IF IsQuotable(m.v.s) THEN Quoted(m.v.s) ELSE m.v.s)
                   /\ InDetailGroup(m) =>
                         \E j \in 1..Len(details) :
                             details[j] = IndentedLines(KeyText(m) \o <<":", SP>> \o m.v.s)
                   /\ InInlineGroup(m) \/ InDetailGroup(m)

C4_Witness ==
    /\ pc = "returned"
    /\ \E i \in 1..Len(extra_fields) :
          LET m == extra_fields[i]
          IN m.v.t = "String" /\ str_contains(m.v.s, SP) /\ InDetailGroup(m)
    /\ \E i \in 1..Len(extra_fields) :
          LET m == extra_fields[i]
          IN m.v.t = "String" /\ str_contains(m.v.s, SP) /\ InInlineGroup(m)

\* The fields of the map that go to one group, in the map's order.
InlineFields == SelectSeq(extra_fields, LAMBDA m : ~is_detail(stringify(m.v)))
DetailFields == SelectSeq(extra_fields, LAMBDA m : is_detail(stringify(m.v)))

ExpectedInlineGroup ==
    LET fs == InlineFields
    IN IF fs = <<>> THEN <<>>
       ELSE <<SP, "(">>
            \o Concat([i \in 1..Len(fs) |->
                         (IF i > 1 THEN <<",">> ELSE <<>>)
                         \o KeyText(fs[i]) \o <<"=">> \o stringify(fs[i].v)])
            \o <<")">>

\* The returned text after its first newline.
AfterFirstNewline(s) ==
    LET i == CHOOSE k \in 1..Len(s) : s[k] = NL /\ \A j \in 1..(k - 1) : s[j] # NL
    IN SubSeq(s, i + 1, Len(s))

DetailValue(m) == IF m.v.t = "String" THEN m.v.s ELSE json_to_indented_string(m.v)

\* C8: the detail group is empty without detail pairs; otherwise it is one
\* block per detail pair, each "key: value" with every line after 4 spaces,
\* the blocks separated by a line of 4 spaces and "--", and the group ends
\* with exactly one newline.
C8_DetailGroup ==
    pc = "returned" =>
        LET fs == DetailFields
            group == AfterFirstNewline(extras_ret)
        IN IF fs = <<>> THEN group = <<>>
           ELSE /\ group =
                     Concat([i \in 1..Len(fs) |->
                               (IF i > 1 THEN <<NL, SP, SP, SP, SP, "-", "-", NL>> ELSE <<>>)
                               \o IndentedLines(KeyText(fs[i]) \o <<":", SP>> \o DetailValue(fs[i]))])
                     \o <<NL>>
                /\ group[Len(group)] = NL
                /\ group[Len(group) - 1] # NL

C8_Witness ==
    /\ pc = "returned"
    /\ Len(DetailFields) = 2
    /\ \E i \in 1..2 : Len(lines(DetailValue(DetailFields[i]))) > 1
    /\ Len(AfterFirstNewline(extras_ret)) > 0

----------------------------------------------------------------------------
(* Claims about decoding                                                   *)

Decoded == pc \in {"decoded", "formatted"}

TimeOf(obj) == IF HasField(obj, Key_time) THEN GetField(obj, Key_time) ELSE Absent

\* The instants the accepted time values stand for: 2012-02-08T22:56:52.856Z
\* is day 15378 after the epoch, 82,612,856 ms into the day.
ExpectedInstant(value) ==
    CASE value = Time_iso -> [days |-> 15378, ms |-> 82612856]
      [] value = Time_iso_offset -> [days |-> 15378, ms |-> 82612000]
      [] value = Time_millis -> [days |-> 15378, ms |-> 82612856]
      [] value = Time_before_epoch -> [days |-> -1, ms |-> 86399999]

\* The line's other fixed fields all have values their fields accept.
OtherFieldsDecode(obj) ==
    /\ HasField(obj, Key_level) /\ GetField(obj, Key_level) \in LevelsOk
    /\ HasField(obj, Key_name) => GetField(obj, Key_name) \in NamesOk
    /\ HasField(obj, Key_pid) => GetField(obj, Key_pid) \in PidsOk
    /\ HasField(obj, Key_msg) /\ GetField(obj, Key_msg) \in MsgsOk

KeysOf(obj) == {obj[i].k : i \in 1..Len(obj)}

Key_version == <<"v", "e", "r", "s", "i", "o", "n">>

\* C10 as claimed: extras holds exactly the input keys that are not among
\* version, level, name, hostname, pid, time and msg, each with its value, and
\* none of those keys.
C10_ExtrasWithoutVersion ==
    Decoded =>
        LET reserved == {Key_version, Key_level, Key_name, Key_hostname, Key_pid,
                         Key_time, Key_msg}
        IN /\ KeysOf(record.extras) = KeysOf(line) \ reserved
           /\ \A i \in 1..Len(record.extras) :
                 record.extras[i].v = GetField(line, record.extras[i].k)

\* C10, amended: extras holds exactly the input keys that are not among v,
\* level, name, hostname, pid, time and msg, each once and with its value, and
\* none of those keys; a "version" key is an extra like any other.
C10_ExtrasWithoutV ==
    Decoded =>
        LET reserved == {Key_v, Key_level, Key_name, Key_hostname, Key_pid,
                         Key_time, Key_msg}
        IN /\ KeysOf(record.extras) = KeysOf(line) \ reserved
           /\ Len(record.extras) = Cardinality(KeysOf(record.extras))
           /\ \A i \in 1..Len(record.extras) :
                 record.extras[i].v = GetField(line, record.extras[i].k)
           /\ HasField(line, Key_v) => record.v = Some(DecValue(GetField(line, Key_v).s))

C10_Witness ==
    /\ pc = "decoded"
    /\ HasField(line, Key_v)
    /\ HasField(line, Key_name)
    /\ Len(record.extras) = 2
    /\ ~HasField(record.extras, Key_v)

----------------------------------------------------------------------------
(* Claims about format                                                     *)

\* C1 as claimed: the line is "[" timestamp "]", a space, the level token,
\* ": ", "{name}/{pid} on {hostname}" when name and hostname are present,
\* ": ", the message, then the extras text.
C1_NamePidHostname ==
    pc = "formatted" /\ record.name.some /\ record.hostname.some =>
        Visible(output) =
            <<"[">> \o to_rfc3339_opts(record.time, local_offset, TRUE) \o <<"]", SP>>
            \o Visible(level_token) \o <<":", SP>>
            \o record.name.val \o <<"/">> \o ToDecimal(unwrap_or(record.pid, 0))
            \o <<SP, "o", "n", SP>> \o record.hostname.val \o <<":", SP>>
            \o record.message
            \o Visible(format_extras(record.extras, should_colorize))

\* What the code writes for the corpus line, with color disabled and a UTC
\* local time zone.
C1_CorpusLine ==
    line = MkLine(BaseLevel, BaseName, BaseHostname, BasePid, Time_iso, BaseMsg,
                  <<Member(Key_v, Num(<<"0">>))>>)
    /\ pc = "formatted" /\ ~should_colorize /\ local_offset = 0
    => output = <<"[", "2", "0", "1", "2", "-", "0", "2", "-", "0", "8", "T", "2", "2", ":", "5", "6", ":", "5", "2", ".", "8", "5", "6", "Z", "]", SP, SP, "I", "N", "F", "O", SP, "(", "1", "2", "3", ")", ":", SP, "M", "y", SP, "m", "e", "s", "s", "a", "g", "e", NL>>

NoStyling(s) == \A i \in 1..Len(s) : s[i] \notin StyleTokens

SeverityStyle(sev) ==
    CASE sev = "Fatal" -> "ESC[7m"
      [] sev = "Error" -> "ESC[31m"
      [] sev = "Warn" -> "ESC[33m"
      [] sev = "Info" -> "ESC[32m"
      [] sev = "Debug" -> "ESC[34m"
      [] sev = "Trace" -> "ESC[38;2;128;128;128m"

HasSuffix(s, t) == Len(s) >= Len(t) /\ SubSeq(s, Len(s) - Len(t) + 1, Len(s)) = t

====
